---- MODULE Spec2Model ----
(***************************************************************************)
(* Model of the process lifecycle manager                                  *)
(* (infrastructure/process/subprocess_server_manager.py), of the backup    *)
(* engine (infrastructure/filesystem, application/use_cases/               *)
(* ensure_daily_backup.py) and of the startup workflow                     *)
(* (application/use_cases/start_server_workflow.py).                       *)
(*                                                                         *)
(* One SubprocessServerManager instance is shared by several caller        *)
(* threads (the HTTP layer runs stop() on a background task).  Every       *)
(* "with self._lock:" block is one atomic action: the lock excludes every  *)
(* other access to _process/_state/_state_since, each block polls the      *)
(* child at most once with a result that can change (a dead child stays    *)
(* dead), and the block reads the clock right after the poll.  The part of *)
(* stop() that runs between its two locked blocks is split into one action *)
(* per blocking call.                                                      *)
(*                                                                         *)
(* The operating system is the environment: a child may exit at any time   *)
(* (Die), and the monotonic clock advances (Tick).                         *)
(*                                                                         *)
(* Time.  The code reads _state_since only in                              *)
(* "monotonic() - self._state_since >= self._startup_grace_period", and a  *)
(* wait(timeout=n) only asks whether n seconds have passed since it began. *)
(* The model therefore keeps the two differences instead of absolute clock *)
(* readings: elapsed = monotonic() - _state_since, which stops counting at *)
(* the grace period, and for each pending wait the time left before it     *)
(* times out.  Behaviours of unbounded duration are covered this way.      *)
(***************************************************************************)
EXTENDS Integers, FiniteSets, Sequences, TLC

\* ---- bounds ------------------------------------------------------------
NumThreads == 2        \* caller threads sharing the manager
MaxSpawn == 3          \* child processes spawned over one behaviour
TickStep == 5          \* seconds the clock advances per Tick

\* ---- program constants -------------------------------------------------
startup_grace_period == 10   \* self._startup_grace_period = 10.0
graceful_timeout == 60       \* process.wait(timeout=60)
forceful_timeout == 10       \* process.wait(timeout=10) after taskkill

None == 0
Threads == 1..NumThreads
Pids == 1..MaxSpawn

\* ServerState
STOPPED == "stopped"
STARTING == "starting"
RUNNING == "running"
ServerState == {STOPPED, STARTING, RUNNING}

VARIABLES
  process,       \* self._process: None or the pid of the Popen handle
  state,         \* self._state
  elapsed,       \* monotonic() - self._state_since, counted up to the grace period
  nt,            \* os.name == "nt"
  spawned,       \* number of children created by Popen so far
  alive,         \* children that have not exited
  reaped,        \* children whose exit status has been collected (poll/wait)
  pc,            \* per thread: position inside stop(), "idle" outside
  proc,          \* per thread: local variable `process` of stop()
  success,       \* per thread: local variable `success` of stop()
  exc,           \* per thread: exception in flight inside stop()
  timeout,       \* per thread: seconds left before the pending wait times out
  sent,          \* per thread: signals sent so far by the stop() in progress
  uptime,        \* seconds since the latest successful Popen, counted up to
                 \* the grace period (observation only, the code keeps no such value)
  last           \* the call that returned last: operation and outcome

vars == <<process, state, elapsed, nt, spawned, alive, reaped,
          pc, proc, success, exc, timeout, sent, uptime, last>>

mgr == <<process, state, elapsed>>
os == <<spawned, alive, reaped>>
locals == <<pc, proc, success, exc, timeout, sent>>

\* the backup engine: the backup root on disk and the calls in progress
VARIABLES
  today,           \* date.today()
  retention_days,  \* EnsureDailyBackupUseCase._retention_days
  base,            \* what _base_directory is: "absent", "dir" or "file"
  entry,           \* what each name under _base_directory is
  archived,        \* the directories holding a file named archive_filename
  bop,             \* per thread: the public operation in progress
  bpc,             \* per thread: position in it
  bdate,           \* per thread: backup_date / today of the call
  ddir,            \* per thread: destination_dir
  tmp,             \* per thread: archive_path exists
  blast,           \* the call that returned last
  created,         \* days for which an execute() has returned True
  written          \* days into whose directory an archive was moved

fs == <<base, entry, archived>>
blocals == <<bop, bpc, bdate, ddir, tmp>>
bvars == <<today, retention_days, base, entry, archived, bop, bpc, bdate,
           ddir, tmp, blast, created, written>>

\* the startup workflow: the execute() calls of StartServerWorkflowUseCase
VARIABLES
  wpc,               \* per thread: position inside execute(), "idle" outside
  backup_performed,  \* per thread: local variable `backup_performed`
  wcalls,            \* per thread: whether _backup_use_case is set, and the
                     \* calls of the two steps that have returned so far
  wlast              \* the execute() that returned last

wvars == <<wpc, backup_performed, wcalls, wlast>>
allvars == <<vars, bvars, wvars>>

Min(a, b) == IF a <= b THEN a ELSE b
Max(a, b) == IF a >= b THEN a ELSE b

\* process.poll() is None
Poll(p) == p \in alive

\* exit statuses collected once handle p has been polled
Reap(p) == IF p # None /\ ~Poll(p) THEN reaped \cup {p} ELSE reaped

\* running = self._process is not None and self._process.poll() is None
Running(p) == p # None /\ Poll(p)

\* _set_state_locked: <<_state, monotonic() - _state_since>> after the call
SetStateLocked(s, e, new) ==
  IF s = new THEN <<s, e>> ELSE <<new, 0>>

\* _refresh_state_locked with the STOPPED transition of the not-running
\* branch left out
RefreshStateLocked_KeepsState(running, p, s, e) ==
  IF ~running
    THEN <<IF p # None /\ ~Poll(p) THEN None ELSE p, s, e>>
    ELSE IF s = STARTING
      THEN IF e >= startup_grace_period THEN <<p, RUNNING, 0>> ELSE <<p, s, e>>
      ELSE IF s # RUNNING THEN <<p, RUNNING, 0>> ELSE <<p, s, e>>

\* _refresh_state_locked with the handle of an exited child left in place
RefreshStateLocked_KeepsHandle(running, p, s, e) ==
  IF ~running
    THEN LET st == SetStateLocked(s, e, STOPPED)
         IN <<p, st[1], st[2]>>
    ELSE IF s = STARTING
      THEN IF e >= startup_grace_period THEN <<p, RUNNING, 0>> ELSE <<p, s, e>>
      ELSE IF s # RUNNING THEN <<p, RUNNING, 0>> ELSE <<p, s, e>>

\* _refresh_state_locked:
\* <<_process, _state, monotonic() - _state_since>> after the call
RefreshStateLocked(running, p, s, e) ==
  IF ~running
    THEN LET p2 == IF p # None /\ ~Poll(p) THEN None ELSE p
             st == SetStateLocked(s, e, STOPPED)
         IN <<p2, st[1], st[2]>>
    ELSE IF s = STARTING
      THEN IF e >= startup_grace_period
             THEN LET st == SetStateLocked(s, e, RUNNING)
                  IN <<p, st[1], st[2]>>
             ELSE <<p, s, e>>
      ELSE IF s # RUNNING
        THEN LET st == SetStateLocked(s, e, RUNNING)
             IN <<p, st[1], st[2]>>
        ELSE <<p, s, e>>

\* the record of a call that has returned or raised
Returned(op, res) == [op |-> op, res |-> res]

\* StartServerWorkflowUseCase.execute(): what the call has done so far
WCalls(configured, backups, starts) ==
  [configured |-> configured, backups |-> backups, starts |-> starts]

NoCalls == WCalls(FALSE, 0, 0)

\* the record of an execute() of the workflow that has returned res (its
\* backup_performed) or raised it, after the calls it made
WReturned(res, calls) == [res |-> res, calls |-> calls]

\* execute() of the workflow returns res (or raises it) in thread t
WorkflowReturn(t, res, calls) ==
  /\ wlast' = WReturned(res, calls)
  /\ wpc' = [wpc EXCEPT ![t] = "idle"]
  /\ backup_performed' = [backup_performed EXCEPT ![t] = FALSE]
  /\ wcalls' = [wcalls EXCEPT ![t] = NoCalls]

\* the workflow with the call of start skipped when no backup was created
EnsureReturns_StartOnlyAfterBackup(t, op, res) ==
  IF wpc[t] = "backup" /\ op = "ensure"
    THEN LET calls == [wcalls[t] EXCEPT !.backups = @ + 1]
         IN IF res = "True"
              THEN /\ backup_performed' = [backup_performed EXCEPT ![t] = TRUE]
                   /\ wcalls' = [wcalls EXCEPT ![t] = calls]
                   /\ wpc' = [wpc EXCEPT ![t] = "start"]
                   /\ UNCHANGED wlast
              ELSE WorkflowReturn(t, res, calls)
    ELSE UNCHANGED wvars

\* the workflow with an exception of the backup step swallowed
EnsureReturns_SwallowsFailure(t, op, res) ==
  IF wpc[t] = "backup" /\ op = "ensure"
    THEN /\ backup_performed' = [backup_performed EXCEPT ![t] = (res = "True")]
         /\ wcalls' = [wcalls EXCEPT ![t].backups = @ + 1]
         /\ wpc' = [wpc EXCEPT ![t] = "start"]
         /\ UNCHANGED wlast
    ELSE UNCHANGED wvars

\* execute() of the workflow:
\* backup_performed = self._backup_use_case.execute() returns res or raises it
EnsureReturns(t, op, res) ==
  IF wpc[t] = "backup" /\ op = "ensure"
    THEN LET calls == [wcalls[t] EXCEPT !.backups = @ + 1]
         IN IF res \in {"True", "False"}
              THEN /\ backup_performed' = [backup_performed EXCEPT ![t] = (res = "True")]
                   /\ wcalls' = [wcalls EXCEPT ![t] = calls]
                   /\ wpc' = [wpc EXCEPT ![t] = "start"]
                   /\ UNCHANGED wlast
              ELSE WorkflowReturn(t, res, calls)
    ELSE UNCHANGED wvars

\* the workflow returning backup_performed whatever start did
StartReturns_SwallowsFailure(t, outcome) ==
  IF wpc[t] = "start"
    THEN WorkflowReturn(t, IF backup_performed[t] THEN "True" ELSE "False",
                        [wcalls[t] EXCEPT !.starts = @ + 1])
    ELSE UNCHANGED wvars

\* execute() of the workflow: self._start_use_case.execute() returns or
\* raises, then return backup_performed
StartReturns(t, outcome) ==
  IF wpc[t] = "start"
    THEN WorkflowReturn(t, IF outcome # "ok" THEN outcome
                           ELSE IF backup_performed[t] THEN "True" ELSE "False",
                        [wcalls[t] EXCEPT !.starts = @ + 1])
    ELSE UNCHANGED wvars

\* no execute() of the workflow has been called
WorkflowInit ==
  /\ wpc = [t \in Threads |-> "idle"]
  /\ backup_performed = [t \in Threads |-> FALSE]
  /\ wcalls = [t \in Threads |-> NoCalls]
  /\ wlast = WReturned("none", NoCalls)

Init ==
  /\ process = None
  /\ state = STOPPED
  /\ elapsed = 0
  /\ nt \in BOOLEAN
  /\ spawned = 0
  /\ alive = {}
  /\ reaped = {}
  /\ pc = [t \in Threads |-> "idle"]
  /\ proc = [t \in Threads |-> None]
  /\ success = [t \in Threads |-> FALSE]
  /\ exc = [t \in Threads |-> "none"]
  /\ timeout = [t \in Threads |-> 0]
  /\ sent = [t \in Threads |-> <<>>]
  /\ uptime = 0
  /\ last = Returned("init", "none")

\* is_running() returning the cached state instead of the liveness it polled
IsRunning_FromCachedState(t) ==
  /\ pc[t] = "idle"
  /\ LET running == Running(process)
         r == RefreshStateLocked(running, process, state, elapsed)
     IN /\ process' = r[1]
        /\ state' = r[2]
        /\ elapsed' = r[3]
        /\ last' = Returned("is_running",
                            IF state # STOPPED THEN "true" ELSE "false")
  /\ reaped' = Reap(process)
  /\ UNCHANGED <<nt, spawned, alive, locals, uptime>>
  /\ UNCHANGED <<bvars, wvars>>

\* is_running()
IsRunning(t) ==
  /\ pc[t] = "idle"
  /\ LET running == Running(process)
         r == RefreshStateLocked(running, process, state, elapsed)
     IN /\ process' = r[1]
        /\ state' = r[2]
        /\ elapsed' = r[3]
        /\ last' = Returned("is_running", IF running THEN "true" ELSE "false")
  /\ reaped' = Reap(process)
  /\ UNCHANGED <<nt, spawned, alive, locals, uptime>>
  /\ UNCHANGED <<bvars, wvars>>

\* get_state()
GetState(t) ==
  /\ pc[t] = "idle"
  /\ LET r == RefreshStateLocked(Running(process), process, state, elapsed)
     IN /\ process' = r[1]
        /\ state' = r[2]
        /\ elapsed' = r[3]
        /\ last' = Returned("get_state", r[2])
  /\ reaped' = Reap(process)
  /\ UNCHANGED <<nt, spawned, alive, locals, uptime>>
  /\ UNCHANGED <<bvars, wvars>>

\* start(script_path) with the liveness check moved before the path check
StartOutcome_RunningFirst(exists, spawn_ok, p) ==
  IF Running(p) THEN "ServerAlreadyRunningError"
  ELSE IF ~exists THEN "ResourceNotFoundError"
  ELSE IF spawn_ok THEN "ok"
  ELSE "OSError"

\* start(script_path): what the call raises, "ok" when it returns
StartOutcome(exists, spawn_ok, p) ==
  IF ~exists THEN "ResourceNotFoundError"
  ELSE IF Running(p) THEN "ServerAlreadyRunningError"
  ELSE IF spawn_ok THEN "ok"
  ELSE "OSError"

\* start(script_path) with the STARTING transition moved before the
\* liveness check
StartState_StartingFirst(outcome, s, e) ==
  IF outcome = "ResourceNotFoundError"
    THEN <<s, e>>
    ELSE LET st == SetStateLocked(s, e, STARTING)
         IN IF outcome \in {"ok", "ServerAlreadyRunningError"} THEN st
            ELSE SetStateLocked(st[1], st[2], STOPPED)

\* start(script_path) without the STOPPED transition of the except block
StartState_NoRevert(outcome, s, e) ==
  IF outcome \in {"ResourceNotFoundError", "ServerAlreadyRunningError"}
    THEN <<s, e>>
    ELSE SetStateLocked(s, e, STARTING)

\* start(script_path): <<_state, monotonic() - _state_since>> after the call
StartState(outcome, s, e) ==
  IF outcome \in {"ResourceNotFoundError", "ServerAlreadyRunningError"}
    THEN <<s, e>>
    ELSE LET st == SetStateLocked(s, e, STARTING)
         IN IF outcome = "ok" THEN st
            ELSE SetStateLocked(st[1], st[2], STOPPED)

\* start(script_path)
Start(t, exists, spawn_ok) ==
  LET outcome == StartOutcome(exists, spawn_ok, process)
      st == StartState(outcome, state, elapsed)
  IN /\ pc[t] = "idle"
     /\ outcome = "ok" => spawned < MaxSpawn
     /\ state' = st[1]
     /\ elapsed' = st[2]
     /\ process' = CASE outcome = "ok" -> spawned + 1
                     [] outcome = "OSError" -> None
                     [] OTHER -> process
     /\ spawned' = IF outcome = "ok" THEN spawned + 1 ELSE spawned
     /\ alive' = IF outcome = "ok" THEN alive \cup {spawned + 1} ELSE alive
     /\ reaped' = IF exists THEN Reap(process) ELSE reaped
     /\ uptime' = IF outcome = "ok" THEN 0 ELSE uptime
     /\ last' = Returned("start", outcome)
     /\ UNCHANGED <<nt, locals>>
     /\ UNCHANGED bvars
     /\ StartReturns(t, outcome)

\* stop(), first locked block, with the poll() left out of the check
StopProceeds_NoPoll(p) == p # None

\* stop(), first locked block: TRUE when the call goes on to signal the child
StopProceeds(p) == ~(p = None \/ ~Poll(p))

\* stop(), first locked block
StopEnter(t) ==
  /\ pc[t] = "idle"
  /\ IF StopProceeds(process)
       THEN /\ proc' = [proc EXCEPT ![t] = process]
            /\ success' = [success EXCEPT ![t] = FALSE]
            /\ pc' = [pc EXCEPT ![t] = "signal"]
            /\ UNCHANGED <<mgr, last, exc, timeout, sent>>
       ELSE /\ process' = None
            /\ LET st == SetStateLocked(state, elapsed, STOPPED)
               IN /\ state' = st[1]
                  /\ elapsed' = st[2]
            /\ last' = Returned("stop", "ServerNotRunningError")
            /\ UNCHANGED locals
  /\ reaped' = Reap(process)
  /\ UNCHANGED <<nt, spawned, alive, uptime>>
  /\ UNCHANGED <<bvars, wvars>>

\* stop(): process.send_signal(CTRL_BREAK_EVENT) on NT,
\* os.killpg(os.getpgid(process.pid), SIGTERM) elsewhere.
\* Popen.send_signal sends nothing once the exit status of the child has
\* been collected; os.getpgid raises ProcessLookupError in that case.
StopSignal(t) ==
  /\ pc[t] = "signal"
  /\ IF proc[t] \in reaped
       THEN IF nt
         THEN /\ pc' = [pc EXCEPT ![t] = "wait"]
              /\ timeout' = [timeout EXCEPT ![t] = graceful_timeout]
              /\ UNCHANGED <<exc, sent>>
         ELSE /\ exc' = [exc EXCEPT ![t] = "ProcessLookupError"]
              /\ pc' = [pc EXCEPT ![t] = "finally"]
              /\ UNCHANGED <<sent, timeout>>
       ELSE /\ sent' = [sent EXCEPT ![t] = Append(@, "TERM")]
            /\ pc' = [pc EXCEPT ![t] = "wait"]
            /\ timeout' = [timeout EXCEPT ![t] = graceful_timeout]
            /\ UNCHANGED exc
  /\ UNCHANGED <<mgr, nt, os, proc, success, uptime, last>>
  /\ UNCHANGED <<bvars, wvars>>

\* stop(): process.wait(timeout=60) returns, the child has exited
StopWaitExit(t) ==
  /\ pc[t] = "wait"
  /\ ~Poll(proc[t])
  /\ reaped' = reaped \cup {proc[t]}
  /\ success' = [success EXCEPT ![t] = TRUE]
  /\ pc' = [pc EXCEPT ![t] = "finally"]
  /\ timeout' = [timeout EXCEPT ![t] = 0]
  /\ UNCHANGED <<mgr, nt, spawned, alive, proc, exc, sent, uptime, last>>
  /\ UNCHANGED <<bvars, wvars>>

\* stop(): process.wait(timeout=60) raises TimeoutExpired.
\* POSIX: process.kill(), then ServerNotRunningError("did not stop in time").
\* NT: taskkill /T /F; a non-zero return code raises ServerNotRunningError,
\* otherwise the second wait begins.
StopWaitTimeout(t, taskkill_ok) ==
  /\ pc[t] = "wait"
  /\ Poll(proc[t])
  /\ timeout[t] = 0
  /\ sent' = [sent EXCEPT ![t] = Append(@, "KILL")]
  /\ IF nt /\ taskkill_ok
       THEN /\ pc' = [pc EXCEPT ![t] = "wait2"]
            /\ timeout' = [timeout EXCEPT ![t] = forceful_timeout]
            /\ UNCHANGED exc
       ELSE /\ exc' = [exc EXCEPT ![t] = "ServerNotRunningError"]
            /\ pc' = [pc EXCEPT ![t] = "finally"]
            /\ UNCHANGED timeout
  /\ UNCHANGED <<mgr, nt, os, proc, success, uptime, last>>
  /\ UNCHANGED <<bvars, wvars>>

\* stop(), NT: process.wait(timeout=10) returns, the child has exited
StopWait2Exit(t) ==
  /\ pc[t] = "wait2"
  /\ ~Poll(proc[t])
  /\ reaped' = reaped \cup {proc[t]}
  /\ success' = [success EXCEPT ![t] = TRUE]
  /\ pc' = [pc EXCEPT ![t] = "finally"]
  /\ timeout' = [timeout EXCEPT ![t] = 0]
  /\ UNCHANGED <<mgr, nt, spawned, alive, proc, exc, sent, uptime, last>>
  /\ UNCHANGED <<bvars, wvars>>

\* stop(), NT: process.wait(timeout=10) raises TimeoutExpired
StopWait2Timeout(t) ==
  /\ pc[t] = "wait2"
  /\ Poll(proc[t])
  /\ timeout[t] = 0
  /\ exc' = [exc EXCEPT ![t] = "ServerNotRunningError"]
  /\ pc' = [pc EXCEPT ![t] = "finally"]
  /\ UNCHANGED <<mgr, nt, os, proc, success, timeout, sent, uptime, last>>
  /\ UNCHANGED <<bvars, wvars>>

\* stop(), finally block, with the STOPPED transition of the success branch
\* left out
StopFinallyLocked_KeepsState(ok, p, s, e) ==
  IF ok
    THEN <<None, s, e>>
    ELSE RefreshStateLocked(Running(p), p, s, e)

\* stop(), finally block:
\* <<_process, _state, monotonic() - _state_since>> after it
StopFinallyLocked(ok, p, s, e) ==
  IF ok
    THEN LET st == SetStateLocked(s, e, STOPPED)
         IN <<None, st[1], st[2]>>
    ELSE RefreshStateLocked(Running(p), p, s, e)

\* stop(), finally block, then the call returns or re-raises
StopFinally(t) ==
  /\ pc[t] = "finally"
  /\ LET r == StopFinallyLocked(success[t], process, state, elapsed)
     IN /\ process' = r[1]
        /\ state' = r[2]
        /\ elapsed' = r[3]
  /\ reaped' = IF success[t] THEN reaped ELSE Reap(process)
  /\ last' = Returned("stop", IF success[t] THEN "ok" ELSE exc[t])
  /\ pc' = [pc EXCEPT ![t] = "idle"]
  /\ proc' = [proc EXCEPT ![t] = None]
  /\ success' = [success EXCEPT ![t] = FALSE]
  /\ exc' = [exc EXCEPT ![t] = "none"]
  /\ timeout' = [timeout EXCEPT ![t] = 0]
  /\ sent' = [sent EXCEPT ![t] = <<>>]
  /\ UNCHANGED <<nt, spawned, alive, uptime>>
  /\ UNCHANGED <<bvars, wvars>>

\* the child exits (on its own, or in response to a signal)
Die(p) ==
  /\ p \in alive
  /\ alive' = alive \ {p}
  /\ UNCHANGED <<mgr, nt, spawned, reaped, locals, uptime, last>>
  /\ UNCHANGED <<bvars, wvars>>

\* a pending wait whose timeout has run out while the child is still alive
TimeoutDue(t) ==
  pc[t] \in {"wait", "wait2"} /\ Poll(proc[t]) /\ timeout[t] = 0

\* the monotonic clock advances by TickStep seconds; a wait whose timeout
\* has run out raises before more time passes
Tick ==
  /\ \A t \in Threads : ~TimeoutDue(t)
  /\ elapsed' = Min(elapsed + TickStep, startup_grace_period)
  /\ timeout' = [t \in Threads |-> Max(timeout[t] - TickStep, 0)]
  /\ uptime' = Min(uptime + TickStep, startup_grace_period)
  /\ UNCHANGED <<process, state, nt, os, pc, proc, success, exc, sent, last>>
  /\ UNCHANGED <<bvars, wvars>>

Next ==
  \/ \E t \in Threads : IsRunning(t)
  \/ \E t \in Threads : GetState(t)
  \/ \E t \in Threads, exists \in BOOLEAN, spawn_ok \in BOOLEAN :
       Start(t, exists, spawn_ok)
  \/ \E t \in Threads : StopEnter(t)
  \/ \E t \in Threads : StopSignal(t)
  \/ \E t \in Threads : StopWaitExit(t)
  \/ \E t \in Threads, taskkill_ok \in BOOLEAN : StopWaitTimeout(t, taskkill_ok)
  \/ \E t \in Threads : StopWait2Exit(t)
  \/ \E t \in Threads : StopWait2Timeout(t)
  \/ \E t \in Threads : StopFinally(t)
  \/ \E p \in Pids : Die(p)
  \/ Tick

TypeOK ==
  /\ process \in {None} \cup Pids
  /\ state \in ServerState
  /\ elapsed \in 0..startup_grace_period
  /\ spawned \in 0..MaxSpawn
  /\ alive \subseteq 1..spawned
  /\ reaped \subseteq (1..spawned) \ alive
  /\ \A t \in Threads : timeout[t] \in 0..graceful_timeout

\* ---- backup engine ------------------------------------------------------
\* DailyBackupStorageService, ZipArchiveService and EnsureDailyBackupUseCase.
\* Calendar dates are day numbers.  A directory entry name is a pair: the
\* name strftime("%Y-%m-%d") gives for a day (<<"iso", d>>, as "2024-01-03"),
\* a name strptime accepts that strftime never gives (<<"loose", d>>, as
\* "2024-1-3"), or a name that is no date (<<"other", None>>, as "notes").

MaxDay == 3
MaxRetention == 2

Days == 1..MaxDay
Retentions == (1 - MaxRetention)..MaxRetention
NoDate == None

LooseName == <<"loose", Min(2, MaxDay)>>
OtherName == <<"other", None>>
NoName == <<"none", None>>

\* backup_date.strftime("%Y-%m-%d")
Strftime(d) == <<"iso", d>>

\* datetime.strptime(name, "%Y-%m-%d").date(); ValueError when not ok
Strptime(n) == [ok |-> n[1] \in {"iso", "loose"}, date |-> n[2]]

Names == {Strftime(d) : d \in Days} \cup {LooseName, OtherName}

\* the record of a call that returned: its operation, what it returned or
\* raised, the path it returned or the paths it removed, whether archive_path
\* still exists, and the retention it was given
BReturned(op, res, path, removed, src, arg) ==
  [op |-> op, res |-> res, path |-> path, removed |-> removed, src |-> src,
   arg |-> arg]

NoArg == <<>>

\* the backup engine before any call, on some backup root
BackupInit ==
  /\ today = 1
  /\ retention_days \in 1..MaxRetention
  /\ base \in {"absent", "dir", "file"}
  /\ entry \in [Names -> {"absent", "dir", "file"}]
  /\ base # "dir" => \A n \in Names : entry[n] = "absent"
  /\ \A n \in {LooseName, OtherName} : entry[n] # "file"
  /\ archived = {n \in Names : entry[n] = "dir"}
  /\ bop = [t \in Threads |-> "none"]
  /\ bpc = [t \in Threads |-> "idle"]
  /\ bdate = [t \in Threads |-> NoDate]
  /\ ddir = [t \in Threads |-> NoName]
  /\ tmp = [t \in Threads |-> FALSE]
  /\ blast = BReturned("init", "none", NoName, {}, FALSE, NoArg)
  /\ created = {}
  /\ written = {}

\* the call of thread t returns res (or raises it)
Return(t, op, res, path, removed, src, arg) ==
  /\ blast' = BReturned(op, res, path, removed, src, arg)
  /\ bop' = [bop EXCEPT ![t] = "none"]
  /\ bpc' = [bpc EXCEPT ![t] = "idle"]
  /\ bdate' = [bdate EXCEPT ![t] = NoDate]
  /\ ddir' = [ddir EXCEPT ![t] = NoName]
  /\ tmp' = [tmp EXCEPT ![t] = FALSE]
  /\ EnsureReturns(t, op, res)

\* thread t moves on to step pos of its call
Goto(t, pos) ==
  /\ bpc' = [bpc EXCEPT ![t] = pos]
  /\ UNCHANGED <<bop, bdate, blast>>
  /\ UNCHANGED wvars

\* execute(): today = date.today()
EnsureBegin(t) ==
  /\ bpc[t] = "idle"
  /\ UNCHANGED <<vars, wvars>>
  /\ bop' = [bop EXCEPT ![t] = "ensure"]
  /\ bpc' = [bpc EXCEPT ![t] = "prepare"]
  /\ bdate' = [bdate EXCEPT ![t] = today]
  /\ UNCHANGED <<today, retention_days, fs, ddir, tmp, blast, created, written>>

\* prepare_daily_directory(backup_date) without the target_dir.exists() branch
PrepareCheckOutcome_NoExistsCheck(b, e, d, mkdir_ok) ==
  IF b = "file" \/ (b = "absent" /\ ~mkdir_ok) THEN "BackupStorageError"
  ELSE "mkdir"

\* prepare_daily_directory(backup_date), up to target_dir.exists():
\* what the call does next
PrepareCheckOutcome(b, e, d, mkdir_ok) ==
  IF b = "file" \/ (b = "absent" /\ ~mkdir_ok) THEN "BackupStorageError"
  ELSE IF e[Strftime(d)] = "file" THEN "BackupStorageError"
  ELSE IF e[Strftime(d)] = "dir" THEN "None"
  ELSE "mkdir"

\* prepare_daily_directory(backup_date): root mkdir and existence check
PrepareCheck(t, mkdir_ok) ==
  LET outcome == PrepareCheckOutcome(base, entry, bdate[t], mkdir_ok)
  IN /\ bpc[t] = "prepare"
     /\ UNCHANGED vars
     /\ base' = IF base = "absent" /\ mkdir_ok THEN "dir" ELSE base
     /\ UNCHANGED <<today, retention_days, entry, archived, created, written>>
     /\ CASE outcome = "mkdir" -> Goto(t, "mkdir") /\ UNCHANGED <<ddir, tmp>>
          [] outcome = "None" /\ bop[t] = "ensure" ->
               Return(t, bop[t], "False", NoName, {}, FALSE, NoArg)
          [] OTHER -> Return(t, bop[t], outcome, NoName, {}, FALSE, NoArg)

\* prepare_daily_directory(backup_date): target_dir.mkdir() and return
PrepareMkdir(t, mkdir_ok) ==
  LET target == Strftime(bdate[t])
      made == mkdir_ok /\ base = "dir" /\ entry[target] = "absent"
  IN /\ bpc[t] = "mkdir"
     /\ UNCHANGED vars
     /\ entry' = IF made THEN [entry EXCEPT ![target] = "dir"] ELSE entry
     /\ UNCHANGED <<today, retention_days, base, archived, created, written>>
     /\ CASE ~made -> Return(t, bop[t], "BackupStorageError", NoName, {}, FALSE, NoArg)
          [] made /\ bop[t] = "ensure" ->
               /\ Goto(t, "zip")
               /\ ddir' = [ddir EXCEPT ![t] = target]
               /\ UNCHANGED tmp
          [] OTHER -> Return(t, bop[t], "path", target, {}, FALSE, NoArg)

\* create_zip(server_root): what the call raises, "ok" when it returns
CreateZipOutcome(root_exists, root_is_dir, zip_ok) ==
  IF ~root_exists THEN "ResourceNotFoundError"
  ELSE IF ~root_is_dir \/ ~zip_ok THEN "ArchiveCreationError"
  ELSE "ok"

\* execute(): archive_path = create_zip(server_root)
CreateZip(t, root_exists, root_is_dir, zip_ok) ==
  LET outcome == CreateZipOutcome(root_exists, root_is_dir, zip_ok)
  IN /\ bpc[t] = "zip"
     /\ UNCHANGED vars
     /\ UNCHANGED <<today, retention_days, fs, created, written>>
     /\ IF outcome = "ok"
          THEN /\ Goto(t, "store")
               /\ tmp' = [tmp EXCEPT ![t] = TRUE]
               /\ UNCHANGED ddir
          ELSE Return(t, bop[t], outcome, NoName, {}, FALSE, NoArg)

\* store_archive without the destination.exists() check
StoreChecksPass_NoDestinationCheck(src, b, e, a, dst) ==
  /\ src
  /\ b = "dir" /\ dst \in Names /\ e[dst] = "dir"

\* store_archive(archive_path, destination_dir, filename): the three checks
StoreChecksPass(src, b, e, a, dst) ==
  /\ src
  /\ b = "dir" /\ dst \in Names /\ e[dst] = "dir"
  /\ dst \notin a

\* execute() going on to prune_older_than when a check of store_archive fails
StoreCheck_PrunesOnFailure(t) ==
  /\ bpc[t] = "store"
  /\ UNCHANGED vars
  /\ UNCHANGED <<today, retention_days, fs, created, written>>
  /\ IF StoreChecksPass(tmp[t], base, entry, archived, ddir[t])
       THEN Goto(t, "move") /\ UNCHANGED <<ddir, tmp>>
       ELSE Goto(t, "prune") /\ UNCHANGED <<ddir, tmp>>

\* store_archive(archive_path, destination_dir, filename): the checks
StoreCheck(t) ==
  /\ bpc[t] = "store"
  /\ UNCHANGED vars
  /\ UNCHANGED <<today, retention_days, fs, created, written>>
  /\ IF StoreChecksPass(tmp[t], base, entry, archived, ddir[t])
       THEN Goto(t, "move") /\ UNCHANGED <<ddir, tmp>>
       ELSE Return(t, bop[t], "BackupStorageError", NoName, {}, tmp[t], NoArg)

\* store_archive(archive_path, destination_dir, filename): shutil.move
StoreMove(t, move_ok) ==
  LET moved == move_ok /\ tmp[t] /\ base = "dir" /\ ddir[t] \in Names
                       /\ entry[ddir[t]] = "dir"
  IN /\ bpc[t] = "move"
     /\ UNCHANGED vars
     /\ archived' = IF moved THEN archived \cup {ddir[t]} ELSE archived
     /\ written' = IF moved /\ Strptime(ddir[t]).ok
                     THEN written \cup {Strptime(ddir[t]).date} ELSE written
     /\ UNCHANGED <<today, retention_days, base, entry, created>>
     /\ CASE ~moved -> Return(t, bop[t], "BackupStorageError", NoName, {}, tmp[t], NoArg)
          [] moved /\ bop[t] = "ensure" ->
               /\ Goto(t, "prune")
               /\ tmp' = [tmp EXCEPT ![t] = FALSE]
               /\ UNCHANGED ddir
          [] OTHER -> Return(t, bop[t], "path", ddir[t], {}, FALSE, NoArg)

\* prune_older_than without the coercion of retention_days
CoerceRetention_Identity(r) == r

\* prune_older_than: retention_days after the coercion
CoerceRetention(r) == IF r <= 0 THEN 1 ELSE r

\* prune_older_than with keep_from a day too early
KeepFrom_OffByOne(r, ref) == ref - CoerceRetention(r)

\* prune_older_than with keep_from the reference date whatever the retention
KeepFrom_ReferenceDate(r, ref) == ref

\* prune_older_than: keep_from
KeepFrom(r, ref) == ref - (CoerceRetention(r) - 1)

\* prune_older_than with candidate_date <= keep_from as the test
PruneCandidates_Inclusive(b, e, r, ref) ==
  IF b # "dir" THEN {}
  ELSE {n \in Names : /\ e[n] = "dir"
                      /\ Strptime(n).ok
                      /\ Strptime(n).date <= KeepFrom(r, ref)}

\* prune_older_than: the entries the loop passes to shutil.rmtree
PruneCandidates(b, e, r, ref) ==
  IF b # "dir" THEN {}
  ELSE {n \in Names : /\ e[n] = "dir"
                      /\ Strptime(n).ok
                      /\ Strptime(n).date < KeepFrom(r, ref)}

\* prune_older_than(r, reference_date=ref) on a backup root where every
\* shutil.rmtree succeeds (rmtree_ok) or where one of them raises, after the
\* loop has removed some of the other candidates
PruneOlderThan(t, op, r, ref, rmtree_ok) ==
  LET cands == PruneCandidates(base, entry, r, ref)
      raises == base = "file" \/ (~rmtree_ok /\ cands # {})
  IN /\ UNCHANGED vars
     /\ UNCHANGED <<today, retention_days, base, written>>
     /\ \E removed \in IF rmtree_ok \/ cands = {} THEN {cands}
                       ELSE UNION {SUBSET (cands \ {n}) : n \in cands} :
          /\ entry' = [n \in Names |->
                         IF n \in removed THEN "absent" ELSE entry[n]]
          /\ archived' = archived \ removed
          /\ created' = IF ~raises /\ op = "ensure"
                          THEN created \cup {ref} ELSE created
          /\ CASE raises /\ op = "ensure" ->
                    Return(t, op, "OSError", NoName, {}, FALSE, NoArg)
               [] raises /\ op # "ensure" ->
                    Return(t, op, "OSError", NoName, {}, FALSE, <<r>>)
               [] ~raises /\ op = "ensure" ->
                    Return(t, op, "True", NoName, removed, FALSE, NoArg)
               [] OTHER ->
                    Return(t, op, "removed", NoName, removed, FALSE, <<r>>)

\* execute(): prune_older_than(self._retention_days, reference_date=today),
\* then return True
EnsurePrune(t, rmtree_ok) ==
  /\ bpc[t] = "prune"
  /\ PruneOlderThan(t, "ensure", retention_days, bdate[t], rmtree_ok)

\* the calendar date changes
NextDay ==
  /\ today < MaxDay
  /\ UNCHANGED <<vars, wvars>>
  /\ today' = today + 1
  /\ UNCHANGED <<retention_days, fs, blocals, blast, created, written>>

BackupNext ==
  \/ \E t \in Threads : EnsureBegin(t)
  \/ \E t \in Threads, mkdir_ok \in BOOLEAN : PrepareCheck(t, mkdir_ok)
  \/ \E t \in Threads, mkdir_ok \in BOOLEAN : PrepareMkdir(t, mkdir_ok)
  \/ \E t \in Threads, root_exists \in BOOLEAN, root_is_dir \in BOOLEAN,
        zip_ok \in BOOLEAN : CreateZip(t, root_exists, root_is_dir, zip_ok)
  \/ \E t \in Threads : StoreCheck(t)
  \/ \E t \in Threads, move_ok \in BOOLEAN : StoreMove(t, move_ok)
  \/ \E t \in Threads, rmtree_ok \in BOOLEAN : EnsurePrune(t, rmtree_ok)
  \/ NextDay

\* the backup engine at rest on an empty backup root
BackupIdle ==
  /\ BackupInit
  /\ base = "absent"
  /\ retention_days = MaxRetention

\* the server manager at rest
ManagerIdle == Init /\ nt

\* the server manager under concurrent callers, the backup engine at rest
SpecInit == Init /\ BackupIdle /\ WorkflowInit

Spec == SpecInit /\ [][Next]_allvars

\* concurrent execute() calls of the request handlers on one backup root
BackupSpecInit == ManagerIdle /\ BackupInit /\ WorkflowInit

BackupSpec == BackupSpecInit /\ [][BackupNext]_allvars

\* one caller at a time calls the storage service
CallPrepare(t, d) ==
  /\ \A u \in Threads : bpc[u] = "idle"
  /\ UNCHANGED <<vars, wvars>>
  /\ bop' = [bop EXCEPT ![t] = "prepare"]
  /\ bpc' = [bpc EXCEPT ![t] = "prepare"]
  /\ bdate' = [bdate EXCEPT ![t] = d]
  /\ UNCHANGED <<today, retention_days, fs, ddir, tmp, blast, created, written>>

CallStore(t, src, dst) ==
  /\ \A u \in Threads : bpc[u] = "idle"
  /\ UNCHANGED <<vars, wvars>>
  /\ bop' = [bop EXCEPT ![t] = "store"]
  /\ bpc' = [bpc EXCEPT ![t] = "store"]
  /\ tmp' = [tmp EXCEPT ![t] = src]
  /\ ddir' = [ddir EXCEPT ![t] = dst]
  /\ UNCHANGED <<today, retention_days, fs, bdate, blast, created, written>>

CallPrune(t, r, ref, rmtree_ok) ==
  /\ \A u \in Threads : bpc[u] = "idle"
  /\ PruneOlderThan(t, "prune", r, ref, rmtree_ok)

\* the thread of the one caller
Caller == CHOOSE t \in Threads : TRUE

StorageNext ==
  \/ \E d \in Days : CallPrepare(Caller, d)
  \/ \E t \in Threads, mkdir_ok \in BOOLEAN : PrepareCheck(t, mkdir_ok)
  \/ \E t \in Threads, mkdir_ok \in BOOLEAN : PrepareMkdir(t, mkdir_ok)
  \/ \E src \in BOOLEAN, dst \in Names : CallStore(Caller, src, dst)
  \/ \E t \in Threads : StoreCheck(t)
  \/ \E t \in Threads, move_ok \in BOOLEAN : StoreMove(t, move_ok)
  \/ \E r \in Retentions, ref \in Days, rmtree_ok \in BOOLEAN :
       CallPrune(Caller, r, ref, rmtree_ok)

\* the storage service called directly, one call at a time
StorageSpecInit == BackupSpecInit /\ retention_days = MaxRetention

StorageSpec == StorageSpecInit /\ [][StorageNext]_allvars

\* execute() called again and again by one caller, each call after the one
\* before it has returned, on a backup root that does not exist yet
SerialNext ==
  \/ EnsureBegin(Caller)
  \/ \E mkdir_ok \in BOOLEAN : PrepareCheck(Caller, mkdir_ok)
  \/ \E mkdir_ok \in BOOLEAN : PrepareMkdir(Caller, mkdir_ok)
  \/ \E root_exists \in BOOLEAN, root_is_dir \in BOOLEAN, zip_ok \in BOOLEAN :
       CreateZip(Caller, root_exists, root_is_dir, zip_ok)
  \/ StoreCheck(Caller)
  \/ \E move_ok \in BOOLEAN : StoreMove(Caller, move_ok)
  \/ \E rmtree_ok \in BOOLEAN : EnsurePrune(Caller, rmtree_ok)
  \/ NextDay

SerialSpecInit == BackupSpecInit /\ base = "absent"

SerialSpec == SerialSpecInit /\ [][SerialNext]_allvars

\* execute() of the workflow: backup_performed = False, and the test of
\* self._backup_use_case (set when configured)
WorkflowBegin(t, configured) ==
  /\ wpc[t] = "idle" /\ pc[t] = "idle" /\ bpc[t] = "idle"
  /\ wpc' = [wpc EXCEPT ![t] = IF configured THEN "backup" ELSE "start"]
  /\ backup_performed' = [backup_performed EXCEPT ![t] = FALSE]
  /\ wcalls' = [wcalls EXCEPT ![t] = WCalls(configured, 0, 0)]
  /\ UNCHANGED <<vars, bvars, wlast>>

\* execute() of the workflow: self._backup_use_case.execute() is called
WorkflowBackup(t) ==
  /\ wpc[t] = "backup"
  /\ EnsureBegin(t)

\* execute() of the workflow: self._start_use_case.execute(), which is
\* self._manager.start(self._script_path)
WorkflowStart(t, exists, spawn_ok) ==
  /\ wpc[t] = "start"
  /\ Start(t, exists, spawn_ok)

\* one caller runs the startup workflow again and again while the child may
\* exit, time passes, the date changes and another thread asks for the state
WorkflowNext ==
  \/ \E configured \in BOOLEAN : WorkflowBegin(Caller, configured)
  \/ WorkflowBackup(Caller)
  \/ \E mkdir_ok \in BOOLEAN : PrepareCheck(Caller, mkdir_ok)
  \/ \E mkdir_ok \in BOOLEAN : PrepareMkdir(Caller, mkdir_ok)
  \/ \E root_exists \in BOOLEAN, root_is_dir \in BOOLEAN, zip_ok \in BOOLEAN :
       CreateZip(Caller, root_exists, root_is_dir, zip_ok)
  \/ StoreCheck(Caller)
  \/ \E move_ok \in BOOLEAN : StoreMove(Caller, move_ok)
  \/ \E rmtree_ok \in BOOLEAN : EnsurePrune(Caller, rmtree_ok)
  \/ \E exists \in BOOLEAN, spawn_ok \in BOOLEAN :
       WorkflowStart(Caller, exists, spawn_ok)
  \/ \E t \in Threads \ {Caller} : GetState(t)
  \/ \E p \in Pids : Die(p)
  \/ Tick
  \/ NextDay

WorkflowSpecInit == Init /\ nt /\ BackupIdle /\ WorkflowInit

WorkflowSpec == WorkflowSpecInit /\ [][WorkflowNext]_allvars

BackupTypeOK ==
  /\ today \in Days
  /\ base \in {"absent", "dir", "file"}
  /\ entry \in [Names -> {"absent", "dir", "file"}]
  /\ archived \subseteq {n \in Names : entry[n] = "dir"}
  /\ base # "dir" => \A n \in Names : entry[n] = "absent"
  /\ created \subseteq Days /\ written \subseteq Days

\* ---- claims ------------------------------------------------------------

ManagerState == <<process, state, elapsed, spawned, alive>>

\* C1: at most one process spawned by the manager is alive at a time.
C1_AtMostOneLiveProcess == Cardinality(alive) <= 1

\* C2: the handle installed by a successful start() is only ever cleared
\* (or replaced) by a step that observed that same process as terminated.
C2_HandleClearedOnlyWhenTerminated ==
  [][process # None /\ process' # process => ~Poll(process)]_vars

\* C3 as stated: between operations, if the handle is absent or refers to a
\* process that has exited, the cached ServerState is STOPPED.
C3_StoppedWheneverNoLiveHandle ==
  (\A t \in Threads : pc[t] = "idle") /\ ~Running(process) => state = STOPPED

\* C3 as amended: whenever the handle is absent the cached ServerState is
\* STOPPED, and whenever no live handle exists get_state() returns STOPPED and
\* is_running() returns false, leaving the handle absent and the state STOPPED.
C3_StoppedWhenHandleAbsent ==
  /\ [](process = None => state = STOPPED)
  /\ [][\A t \in Threads :
          /\ GetState(t) /\ ~Running(process) =>
               last'.res = STOPPED /\ process' = None /\ state' = STOPPED
          /\ IsRunning(t) /\ ~Running(process) =>
               last'.res = "false" /\ process' = None /\ state' = STOPPED
       ]_vars

\* C3 witness: a query found the handle of an exited child and reported STOPPED.
C3_Witness ==
  /\ last = Returned("get_state", STOPPED)
  /\ spawned > 0 /\ spawned \in reaped
  /\ process = None /\ state = STOPPED

\* C4: start() with a script path that does not exist raises
\* ResourceNotFoundError, spawns nothing and leaves handle, state and
\* timestamp as they were (a STOPPED manager stays STOPPED).
C4_MissingScriptRejected ==
  [][\A t \in Threads, spawn_ok \in BOOLEAN :
       Start(t, FALSE, spawn_ok) =>
         /\ last' = Returned("start", "ResourceNotFoundError")
         /\ UNCHANGED ManagerState
         /\ state = STOPPED => state' = STOPPED
    ]_vars

\* C4 witness: start() on a missing script has just failed on a STOPPED manager.
C4_Witness ==
  /\ last = Returned("start", "ResourceNotFoundError")
  /\ state = STOPPED /\ process = None /\ alive = {}

\* C5 as stated: with a live handle, start() raises ServerAlreadyRunningError
\* for every script path and changes nothing.
C5_AlreadyRunningForEveryPath ==
  [][\A t \in Threads, exists \in BOOLEAN, spawn_ok \in BOOLEAN :
       Start(t, exists, spawn_ok) /\ Running(process) =>
         /\ last' = Returned("start", "ServerAlreadyRunningError")
         /\ UNCHANGED ManagerState
    ]_vars

\* C5 as amended: with a live handle, start() raises ServerAlreadyRunningError
\* for every script path that exists and ResourceNotFoundError for one that
\* does not; either way nothing is spawned and handle, cached state and
\* transition timestamp are unchanged.
C5_AlreadyRunningForExistingPath ==
  [][\A t \in Threads, exists \in BOOLEAN, spawn_ok \in BOOLEAN :
       Start(t, exists, spawn_ok) /\ Running(process) =>
         /\ last' = Returned("start", IF exists THEN "ServerAlreadyRunningError"
                                                ELSE "ResourceNotFoundError")
         /\ UNCHANGED ManagerState
    ]_vars

\* C5 witness: start() has just been refused on a manager whose child is
\* alive and already reported RUNNING.
C5_Witness ==
  /\ last = Returned("start", "ServerAlreadyRunningError")
  /\ Running(process) /\ state = RUNNING

\* C6: while the child is alive, get_state() less than the grace period
\* after the successful start() returns STARTING.
C6_StartingDuringGrace ==
  [][\A t \in Threads :
       GetState(t) /\ Running(process) /\ uptime < startup_grace_period =>
         last'.res = STARTING
    ]_vars

\* C7: once the grace period has passed since the successful start(),
\* get_state() returns RUNNING for as long as the started child is alive.
C7_RunningAfterGrace ==
  [][\A t \in Threads :
       GetState(t) /\ spawned \in alive /\ uptime >= startup_grace_period =>
         last'.res = RUNNING
    ]_vars

\* C8: stop() with no live process raises ServerNotRunningError, sends no
\* signal, clears a stale handle and sets the cached state to STOPPED.
C8_StopWithoutLiveProcess ==
  [][\A t \in Threads :
       StopEnter(t) /\ ~Running(process) =>
         /\ last' = Returned("stop", "ServerNotRunningError")
         /\ process' = None /\ state' = STOPPED
         /\ sent' = sent /\ pc'[t] = "idle"
         /\ UNCHANGED <<spawned, alive>>
    ]_vars

\* C8 witness: stop() was refused right after the child exited, and the stale
\* handle is gone.
C8_Witness ==
  /\ last = Returned("stop", "ServerNotRunningError")
  /\ spawned > 0 /\ uptime = 0 /\ spawned \in reaped
  /\ process = None /\ state = STOPPED

\* C9: a stop() whose wait sees the child exit returns successfully with the
\* handle cleared and the state STOPPED, whatever the state was, and the
\* query that follows reports STOPPED / false.
C9_StopSucceeds ==
  [][\A t \in Threads :
       /\ StopWaitExit(t) \/ StopWait2Exit(t) =>
            success'[t] /\ pc'[t] = "finally"
       /\ StopFinally(t) /\ success[t] =>
            /\ last' = Returned("stop", "ok")
            /\ process' = None /\ state' = STOPPED
       /\ GetState(t) /\ last = Returned("stop", "ok") =>
            last'.res = STOPPED /\ process' = None /\ state' = STOPPED
       /\ IsRunning(t) /\ last = Returned("stop", "ok") =>
            last'.res = "false" /\ process' = None /\ state' = STOPPED
    ]_vars

\* C9 witness: stop() has just returned successfully.
C9_Witness ==
  /\ last = Returned("stop", "ok")
  /\ process = None /\ state = STOPPED

\* C10: the cached state changes only along STOPPED->STARTING,
\* STARTING->RUNNING, RUNNING->STOPPED and STARTING->STOPPED.
C10_TransitionsFollowStateMachine ==
  [][state' # state =>
       <<state, state'>> \in {<<STOPPED, STARTING>>, <<STARTING, RUNNING>>,
                              <<RUNNING, STOPPED>>, <<STARTING, STOPPED>>}
    ]_vars

\* C11: when the handle refers to a child that has exited, the next
\* get_state() returns STOPPED and the next is_running() returns false,
\* whether the cached state was STARTING or RUNNING, and that refresh clears
\* the handle.
C11_DeathCollapsesToStopped ==
  [][\A t \in Threads :
       /\ GetState(t) /\ process # None /\ ~Poll(process) =>
            /\ last' = Returned("get_state", STOPPED)
            /\ process' = None /\ state' = STOPPED
       /\ IsRunning(t) /\ process # None /\ ~Poll(process) =>
            /\ last' = Returned("is_running", "false")
            /\ process' = None /\ state' = STOPPED
    ]_vars

\* C11 witness: is_running() found the handle of a child that died after it
\* had been reported RUNNING (the grace period had passed), and cleared it.
C11_Witness ==
  /\ last = Returned("is_running", "false")
  /\ spawned > 0 /\ spawned \in reaped /\ uptime = startup_grace_period
  /\ process = None /\ state = STOPPED /\ elapsed = 0

\* stop() reaches its finally block without having confirmed termination,
\* and the process whose handle it captured is still alive
StopUnconfirmed(t) ==
  /\ StopFinally(t)
  /\ ~success[t] /\ exc[t] = "ServerNotRunningError"
  /\ Poll(proc[t])

\* C12: a stop() that cannot confirm termination raises
\* ServerNotRunningError, keeps the handle of the process it tried to stop and
\* does not leave the cached state STOPPED while that process is alive.
C12_UnconfirmedStopKeepsProcess ==
  [][\A t \in Threads :
       StopUnconfirmed(t) =>
         /\ last' = Returned("stop", "ServerNotRunningError")
         /\ process' = proc[t]
         /\ state' # STOPPED
    ]_vars

\* C13: when spawning fails inside start(), the error propagates, the handle
\* is absent afterwards, the state is STOPPED and no child was created.
C13_SpawnFailureRevertsToStopped ==
  [][\A t \in Threads :
       Start(t, TRUE, FALSE) /\ ~Running(process) =>
         /\ last' = Returned("start", "OSError")
         /\ process' = None /\ state' = STOPPED
         /\ pc'[t] = "idle"
         /\ UNCHANGED <<spawned, alive>>
    ]_vars

\* C13 witness: a start() whose spawn failed has just returned on a manager
\* whose earlier child had exited.
C13_Witness ==
  /\ last = Returned("start", "OSError")
  /\ spawned > 0 /\ spawned \in reaped /\ alive = {}
  /\ process = None /\ state = STOPPED

\* the directories under the backup root whose name parses as a date
\* earlier than day
DatedBefore(day) ==
  {n \in Names : entry[n] = "dir" /\ Strptime(n).ok /\ Strptime(n).date < day}

\* C14: prepare_daily_directory(D) on a date without an entry creates the
\* directory and returns its path; on a date whose directory exists (so on
\* every later call) it returns None and changes nothing on disk; on a date
\* whose path is not a directory it raises BackupStorageError.
C14_PrepareOncePerDate ==
  /\ [](blast.op = "prepare" /\ blast.res = "path" =>
          \E d \in Days : blast.path = Strftime(d) /\ entry[blast.path] = "dir")
  /\ [][\A t \in Threads :
          /\ \A mkdir_ok \in BOOLEAN :
               (PrepareCheck(t, mkdir_ok) /\ bop[t] = "prepare" /\ base = "dir")
               => ( /\ UNCHANGED fs
                    /\ entry[Strftime(bdate[t])] = "dir" =>
                         blast'.op = "prepare" /\ blast'.res = "None"
                    /\ entry[Strftime(bdate[t])] = "file" =>
                         /\ blast'.op = "prepare"
                         /\ blast'.res = "BackupStorageError"
                    /\ entry[Strftime(bdate[t])] = "absent" =>
                         bpc'[t] = "mkdir" )
          /\ (PrepareMkdir(t, TRUE) /\ bop[t] = "prepare")
             => ( /\ entry[Strftime(bdate[t])] = "absent"
                  /\ entry' = [entry EXCEPT ![Strftime(bdate[t])] = "dir"]
                  /\ UNCHANGED <<base, archived>>
                  /\ blast'.res = "path" /\ blast'.path = Strftime(bdate[t]) )
       ]_allvars

\* C14 witness: prepare_daily_directory has just returned None on a backup
\* root whose only dated directory is one an earlier call created (it holds
\* no archive).
C14_Witness ==
  /\ blast.op = "prepare" /\ blast.res = "None"
  /\ \E d \in Days :
       /\ entry[Strftime(d)] = "dir" /\ Strftime(d) \notin archived
       /\ \A n \in Names \ {Strftime(d)} : entry[n] # "dir"

\* C16: store_archive raises BackupStorageError and leaves source and
\* destination untouched when the archive is missing, the destination
\* directory is missing or no directory, or the destination file exists;
\* otherwise the archive ends at destination_dir/filename, is gone from the
\* source path, nothing was overwritten and the final path is returned.
C16_StoreArchiveContract ==
  [][\A t \in Threads :
       /\ (StoreCheck(t) /\ bop[t] = "store")
          => ( /\ UNCHANGED fs
               /\ IF \/ ~tmp[t]
                     \/ base # "dir" \/ entry[ddir[t]] # "dir"
                     \/ ddir[t] \in archived
                    THEN /\ blast'.op = "store"
                         /\ blast'.res = "BackupStorageError"
                         /\ blast'.src = tmp[t]
                    ELSE bpc'[t] = "move" /\ tmp'[t] /\ ddir'[t] = ddir[t] )
       /\ (StoreMove(t, TRUE) /\ bop[t] = "store")
          => ( /\ ddir[t] \notin archived
               /\ archived' = archived \cup {ddir[t]}
               /\ UNCHANGED <<base, entry>>
               /\ blast'.op = "store" /\ blast'.res = "path"
               /\ blast'.path = ddir[t] /\ ~blast'.src )
    ]_allvars

\* C16 witness: store_archive has just moved an archive into a directory.
C16_Witness ==
  /\ blast.op = "store" /\ blast.res = "path" /\ ~blast.src
  /\ blast.path \in archived /\ entry[blast.path] = "dir"
  /\ written # {}

\* C17: prune_older_than(r, ref) with r >= 1 removes exactly the directories
\* whose name parses as a date earlier than ref - (r - 1), leaves every other
\* entry as it was and returns exactly the removed paths (none when the root
\* does not exist); retention 7 at day 10 keeps day 4 and later.
C17_PruneRemovesExactlyOlder ==
  /\ KeepFrom(7, 10) = 4
  /\ [][\A r \in Retentions, ref \in Days :
          ( /\ r >= 1 /\ base # "file"
            /\ blast'.arg = <<r>> /\ bpc'[Caller] = "idle"
            /\ CallPrune(Caller, r, ref, TRUE) )
          => ( /\ blast'.op = "prune" /\ blast'.res = "removed"
               /\ blast'.removed = DatedBefore(ref - (r - 1))
               /\ entry' = [n \in Names |->
                              IF n \in DatedBefore(ref - (r - 1))
                                THEN "absent" ELSE entry[n]]
               /\ archived' = archived \ DatedBefore(ref - (r - 1))
               /\ base' = base
               /\ base = "absent" => blast'.removed = {} )
       ]_allvars

\* C17 witness: a prune with the largest retention has just removed a directory and
\* left a directory behind.
C17_Witness ==
  /\ blast.op = "prune" /\ blast.res = "removed" /\ blast.removed # {}
  /\ blast.arg = <<MaxRetention>>
  /\ \A n \in blast.removed : entry[n] = "absent"
  /\ \E n \in Names : Strptime(n).ok /\ entry[n] = "dir"

\* C18: prune_older_than(r, ref) with r below 1 behaves as with r = 1 (it
\* removes exactly the directories dated before ref), and for no r is a
\* directory dated ref or later removed.
C18_RetentionBelowOneIsOne ==
  [][\A r \in Retentions, ref \in Days :
       /\ ( /\ r < 1 /\ base # "file"
            /\ blast'.arg = <<r>> /\ bpc'[Caller] = "idle"
            /\ CallPrune(Caller, r, ref, TRUE) )
          => ( /\ blast'.removed = DatedBefore(ref)
               /\ entry' = [n \in Names |->
                              IF n \in DatedBefore(ref)
                                THEN "absent" ELSE entry[n]] )
       /\ \A rmtree_ok \in BOOLEAN :
            ( /\ blast'.arg = <<r>> /\ bpc'[Caller] = "idle"
              /\ CallPrune(Caller, r, ref, rmtree_ok) )
            => \A n \in Names :
                 Strptime(n).ok /\ Strptime(n).date >= ref =>
                   entry'[n] = entry[n]
    ]_allvars

\* C18 witness: a prune with retention 0 has just removed a directory dated
\* the day before that of a directory it kept.
C18_Witness ==
  /\ blast.op = "prune" /\ blast.res = "removed" /\ blast.arg = <<0>>
  /\ \E d \in Days \ {1} :
       entry[Strftime(d)] = "dir" /\ Strftime(d - 1) \in blast.removed

\* C15: over any number of execute() calls that read the same calendar date,
\* sequential or concurrent, at most one returns True and at most one
\* archive is moved into the directory of that date.
C15_AtMostOneBackupPerDate ==
  [][\A t \in Threads, ok \in BOOLEAN :
       /\ (EnsurePrune(t, ok) /\ blast'.res = "True")
          => bdate[t] \notin created
       /\ (StoreMove(t, ok) /\ bop[t] = "ensure" /\ bpc'[t] = "prune")
          => bdate[t] \notin written
    ]_allvars

\* C19: execute() on a backup root with no entry for today creates the
\* directory of today, puts one archive into it, removes the directories
\* older than the retention window and returns True; once it has, a call on
\* the same day returns False and calls neither create_zip, store_archive nor
\* prune_older_than.
C19_EnsureDailyBackup ==
  /\ [](today \in created =>
          entry[Strftime(today)] = "dir" /\ Strftime(today) \in archived)
  /\ [][\A t \in Threads :
          bop[t] = "ensure" =>
            /\ \A ok \in BOOLEAN :
                 ( /\ PrepareCheck(t, ok)
                   /\ base = "dir" /\ entry[Strftime(bdate[t])] = "dir" )
                 => ( /\ blast'.op = "ensure" /\ blast'.res = "False"
                      /\ bpc'[t] = "idle" /\ ~tmp'[t]
                      /\ UNCHANGED <<fs, created, written>> )
            /\ ( /\ PrepareCheck(t, TRUE)
                 /\ base # "file" /\ entry[Strftime(bdate[t])] = "absent" )
               => (bpc'[t] = "mkdir" /\ UNCHANGED <<entry, archived>>)
            /\ (PrepareMkdir(t, TRUE) /\ entry[Strftime(bdate[t])] = "absent")
               => ( /\ entry' = [entry EXCEPT ![Strftime(bdate[t])] = "dir"]
                    /\ archived' = archived
                    /\ bpc'[t] = "zip" /\ ddir'[t] = Strftime(bdate[t]) )
            /\ CreateZip(t, TRUE, TRUE, TRUE)
               => (bpc'[t] = "store" /\ tmp'[t] /\ UNCHANGED fs)
            /\ (StoreCheck(t) /\ bdate[t] = today)
               => (bpc'[t] = "move" /\ UNCHANGED fs)
            /\ (StoreMove(t, TRUE) /\ bdate[t] = today)
               => ( /\ ddir[t] = Strftime(bdate[t]) /\ ddir[t] \notin archived
                    /\ archived' = archived \cup {ddir[t]}
                    /\ entry' = entry /\ bpc'[t] = "prune" )
            /\ EnsurePrune(t, TRUE)
               => ( /\ blast'.op = "ensure" /\ blast'.res = "True"
                    /\ \A n \in Names :
                         entry'[n] = "dir" /\ Strptime(n).ok =>
                           Strptime(n).date >= bdate[t] - (retention_days - 1)
                    /\ bdate[t] = today =>
                         /\ entry'[Strftime(today)] = "dir"
                         /\ Strftime(today) \in archived' )
       ]_allvars

\* C19 witness: an execute() has returned True today, and a later one has
\* just returned False, the directory of today holding its archive.
C19_Witness ==
  /\ blast.op = "ensure" /\ blast.res = "False"
  /\ today \in created /\ today \in written
  /\ entry[Strftime(today)] = "dir" /\ Strftime(today) \in archived

\* the directories under the backup root whose name parses as a date
DatedDirs == {n \in Names : entry[n] = "dir" /\ Strptime(n).ok}

\* C20 as stated: a successful execute() with retention N leaves in place
\* the N most recent date-named directories (all of them when there are
\* fewer than N).
C20_MostRecentRetained ==
  [][\A t \in Threads :
       (EnsurePrune(t, TRUE) /\ blast'.res = "True") =>
         \A n \in DatedDirs :
           Cardinality({m \in DatedDirs :
                          Strptime(m).date > Strptime(n).date}) < retention_days
             => entry'[n] = "dir"
    ]_allvars

\* C20 as amended: a successful execute() with retention N on date D leaves
\* in place every entry but the date-named directories dated before
\* D - (N - 1), and removes all of those.
C20_WindowRetained ==
  [][\A t \in Threads, ok \in BOOLEAN :
       EnsurePrune(t, ok) =>
         /\ \A n \in Names :
              entry'[n] # entry[n] =>
                /\ n \in DatedBefore(bdate[t] - (retention_days - 1))
                /\ entry'[n] = "absent"
         /\ blast'.res = "True" =>
              /\ \A n \in DatedBefore(bdate[t] - (retention_days - 1)) :
                   entry'[n] = "absent"
              /\ blast'.removed = DatedBefore(bdate[t] - (retention_days - 1))
    ]_allvars

\* C20 witness: an execute() with the largest retention has just returned
\* True, having removed a directory and kept one dated before today.
C20_Witness ==
  /\ blast.op = "ensure" /\ blast.res = "True" /\ blast.removed # {}
  /\ retention_days = MaxRetention
  /\ \E n \in Names :
       entry[n] = "dir" /\ Strptime(n).ok /\ Strptime(n).date < today
\* every call has returned
AllReturned == \A t \in Threads : bpc[t] = "idle"

\* C21: starting from an empty backup root, after every completed execute()
\* of a sequence of calls on non-decreasing dates, whether the call succeeded
\* or failed at create_zip or store_archive, at most retention_days date-named
\* directories exist under the backup root.
C21_BoundedDirectories ==
  AllReturned => Cardinality(DatedDirs) <= retention_days

\* C22: whenever prepare_daily_directory(today) returns None inside
\* execute(), the directory of that date holds the archive, after any
\* sequence of execute() calls, failed ones included.
C22_NoneMeansBackupTaken ==
  [][\A mkdir_ok \in BOOLEAN :
       (PrepareCheck(Caller, mkdir_ok) /\ blast'.res = "False")
       => Strftime(bdate[Caller]) \in archived
    ]_allvars
\* the step is one in which the backup step of the workflow execute() of
\* thread t returns or raises
BackupStepReturns(t) ==
  wpc[t] = "backup" /\ bop[t] = "ensure" /\ bpc'[t] = "idle"

\* C23: execute() of the workflow runs the backup step first when one is
\* configured, then calls start exactly once, whether the backup step
\* returned True or False or is not configured, and returns what the backup
\* step returned (False when not configured).
C23_BackupThenStartOnce ==
  /\ [](wlast.res \in {"True", "False"} =>
          /\ wlast.calls.starts = 1
          /\ wlast.calls.backups = IF wlast.calls.configured THEN 1 ELSE 0
          /\ ~wlast.calls.configured => wlast.res = "False")
  /\ [][\A t \in Threads :
          /\ WorkflowBegin(t, TRUE) => wpc'[t] = "backup"
          /\ WorkflowBegin(t, FALSE) =>
               wpc'[t] = "start" /\ ~backup_performed'[t]
          /\ (BackupStepReturns(t) /\ blast'.res \in {"True", "False"})
             => ( /\ wpc'[t] = "start"
                  /\ backup_performed'[t] = (blast'.res = "True")
                  /\ wcalls'[t] = WCalls(TRUE, 1, 0) )
          /\ \A exists \in BOOLEAN, spawn_ok \in BOOLEAN :
               WorkflowStart(t, exists, spawn_ok)
               => ( /\ wcalls[t].starts = 0
                    /\ wcalls[t].backups = IF wcalls[t].configured THEN 1 ELSE 0
                    /\ last'.op = "start"
                    /\ wpc'[t] = "idle"
                    /\ wlast'.calls = [wcalls[t] EXCEPT !.starts = 1]
                    /\ last'.res = "ok" =>
                         wlast'.res = IF backup_performed[t] THEN "True"
                                      ELSE "False" )
       ]_allvars

\* C23 witness: an execute() of the workflow has just returned False after
\* a backup step that found the backup of today and a start that spawned the
\* second child.
C23_Witness ==
  /\ wlast = WReturned("False", WCalls(TRUE, 1, 1))
  /\ last = Returned("start", "ok")
  /\ blast.op = "ensure" /\ blast.res = "False"
  /\ today \in created /\ process = 2 /\ Running(process)

\* C24: a failure of the backup step or of start propagates from execute()
\* of the workflow as it was raised; each step is called at most once per
\* execute(); when the backup step fails start is not called, and the backup
\* step leaves handle, state and timestamp of the manager as they were.
C24_FailuresPropagate ==
  /\ [](\A t \in Threads :
          /\ wcalls[t].backups <= 1 /\ wcalls[t].starts <= 1
          /\ wlast.calls.backups <= 1 /\ wlast.calls.starts <= 1)
  /\ [][\A t \in Threads :
          /\ (BackupStepReturns(t) /\ blast'.res \notin {"True", "False"})
             => ( /\ wlast' = WReturned(blast'.res, WCalls(TRUE, 1, 0))
                  /\ wpc'[t] = "idle"
                  /\ UNCHANGED vars )
          /\ (wpc[t] = "backup" /\ bvars' # bvars) => UNCHANGED vars
          /\ \A exists \in BOOLEAN, spawn_ok \in BOOLEAN :
               (WorkflowStart(t, exists, spawn_ok) /\ last'.res # "ok")
               => ( /\ wlast'.res = last'.res
                    /\ wlast'.calls.starts = 1
                    /\ wpc'[t] = "idle"
                    /\ last'.res = StartOutcome(exists, spawn_ok, process) )
       ]_allvars

\* C24 witness: an execute() of the workflow has just raised the
\* ArchiveCreationError of its backup step without calling start, on a
\* manager whose child is alive.
C24_Witness ==
  /\ wlast = WReturned("ArchiveCreationError", WCalls(TRUE, 1, 0))
  /\ blast.res = "ArchiveCreationError"
  /\ Running(process) /\ last = Returned("get_state", RUNNING)
\* C25: a call of prepare_daily_directory, store_archive or prune_older_than
\* either returns or raises BackupStorageError, whatever filesystem call
\* failed inside it.
C25_FailuresAreBackupStorageError ==
  blast.op \in {"prepare", "store", "prune"} =>
    blast.res \in {"path", "None", "removed", "BackupStorageError"}
\* C26: a stop() that went on to signal a live process returns after one
\* graceful signal, a wait of at most graceful_timeout, at most one forceful
\* attempt and (on NT) one more wait of at most forceful_timeout, and it
\* returns successfully or raises ServerNotRunningError.
C26_StopRunsToCompletion ==
  /\ [](\A t \in Threads :
          /\ pc[t] = "wait" => timeout[t] <= graceful_timeout
          /\ pc[t] = "wait2" => nt /\ timeout[t] <= forceful_timeout)
  /\ [][\A t \in Threads :
          StopFinally(t) =>
            /\ last'.op = "stop"
            /\ last'.res \in {"ok", "ServerNotRunningError"}
            /\ sent[t] \in {<<"TERM">>, <<"TERM", "KILL">>}
            /\ pc'[t] = "idle"
       ]_vars

\* a stop() is blocked in process.wait() on a process that has not exited
StopBlocked(u) == pc[u] \in {"wait", "wait2"} /\ Poll(proc[u])

\* C27: while a stop() is blocked waiting for a process that has not exited,
\* get_state() returns STARTING or RUNNING, is_running() returns true and
\* start() raises ServerAlreadyRunningError.
C27_AliveWhileStopWaits ==
  [][\A t \in Threads, u \in Threads :
       StopBlocked(u) =>
         /\ GetState(t) => last'.res \in {STARTING, RUNNING}
         /\ IsRunning(t) => last'.res = "true"
         /\ \A spawn_ok \in BOOLEAN :
              Start(t, TRUE, spawn_ok) =>
                last'.res = "ServerAlreadyRunningError"
    ]_vars
\* two stop() calls are in progress on the same process
StopsOverlap(t, u) ==
  t # u /\ pc[t] # "idle" /\ pc[u] # "idle" /\ proc[t] = proc[u]

\* C28: of two stop() calls that overlap on the same process, each returns
\* successfully or raises ServerNotRunningError, and the one that returns
\* after the process has exited leaves the handle absent and the state
\* STOPPED.
C28_OverlappingStops ==
  /\ [](\A t \in Threads, u \in Threads :
          StopsOverlap(t, u) => exc[t] \in {"none", "ServerNotRunningError"})
  /\ [][\A t \in Threads :
          (StopFinally(t) /\ ~Poll(proc[t]) /\ process \in {None, proc[t]})
          => (process' = None /\ state' = STOPPED)
       ]_vars

\* C29: get_state() never returns STOPPED and is_running() never returns
\* false while a child spawned by the manager is alive, and every live child
\* is the one the handle refers to.
C29_NoLiveProcessUntracked ==
  /\ [](alive \subseteq {process})
  /\ [][\A t \in Threads :
          alive # {} =>
            /\ GetState(t) => last'.res # STOPPED
            /\ IsRunning(t) => last'.res # "false"
       ]_vars
\* C30: on the same manager and process status, is_running() returns true
\* exactly when get_state() returns STARTING or RUNNING and false exactly
\* when it returns STOPPED, and both leave the same handle, cached state and
\* timestamp.
C30_QueriesAgree ==
  [][\A t \in Threads :
       IsRunning(t) =>
         \E m \in {mgr'}, r \in {last'.res} :
           ENABLED ( /\ GetState(t)
                     /\ mgr' = m
                     /\ (r = "true") <=> (last'.res \in {STARTING, RUNNING})
                     /\ (r = "false") <=> (last'.res = STOPPED) )
    ]_vars

\* C30 witness: is_running() has just returned true on a manager whose
\* cached state went from STARTING to RUNNING in that call.
C30_Witness ==
  /\ last = Returned("is_running", "true")
  /\ state = RUNNING /\ elapsed = 0 /\ Running(process)
  /\ uptime = startup_grace_period
\* C31: execute() calls prune_older_than only once its archive has been
\* moved into the directory of its date; when create_zip or store_archive
\* raises, execute() raises the same error and that step deletes nothing
\* under the backup root; only the prune step of a call deletes a directory.
C31_PruneOnlyAfterStore ==
  /\ [](\A t \in Threads :
          bpc[t] = "prune" => bdate[t] \in written /\ ~tmp[t])
  /\ [][\A t \in Threads :
          /\ \A root_exists \in BOOLEAN, root_is_dir \in BOOLEAN,
                zip_ok \in BOOLEAN :
               ( /\ CreateZip(t, root_exists, root_is_dir, zip_ok)
                 /\ ~(root_exists /\ root_is_dir /\ zip_ok) )
               => ( /\ blast'.op = "ensure"
                    /\ blast'.res \in {"ResourceNotFoundError",
                                        "ArchiveCreationError"}
                    /\ blast'.removed = {}
                    /\ bpc'[t] = "idle"
                    /\ UNCHANGED fs )
          /\ ( /\ bop[t] = "ensure"
               /\ StoreCheck(t) \/ \E move_ok \in BOOLEAN : StoreMove(t, move_ok)
               /\ bpc'[t] = "idle" )
             => ( /\ blast'.op = "ensure"
                  /\ blast'.res = "BackupStorageError"
                  /\ blast'.removed = {}
                  /\ UNCHANGED fs )
          /\ (bop[t] = "ensure" /\ bpc[t] # "prune" /\ bpc'[t] # bpc[t])
             => \A n \in Names : entry[n] = "dir" => entry'[n] = "dir"
       ]_allvars

\* C31 witness: an execute() has just raised the error of create_zip, and a
\* directory that its prune_older_than would have removed is still there.
C31_Witness ==
  /\ blast.op = "ensure" /\ blast.res = "ArchiveCreationError"
  /\ entry[Strftime(today)] = "dir" /\ Strftime(today) \notin archived
  /\ DatedBefore(KeepFrom(retention_days, today)) # {}
\* the latest day for which an execute() of the backup has returned True
LatestBackup == CHOOSE d \in created : \A x \in created : x <= d

\* what C32 says of a start step of the workflow that found the process
\* alive: ServerAlreadyRunningError leaves execute(), the manager is as it
\* was, and the backup made by the backup step stays
AlreadyRunningAfterBackup(t) ==
  /\ last' = Returned("start", "ServerAlreadyRunningError")
  /\ wlast' = WReturned("ServerAlreadyRunningError",
                        [wcalls[t] EXCEPT !.starts = 1])
  /\ wcalls[t].backups = IF wcalls[t].configured THEN 1 ELSE 0
  /\ UNCHANGED ManagerState
  /\ UNCHANGED <<fs, created, written>>
  /\ backup_performed[t] =>
       /\ blast.op = "ensure" /\ blast.res = "True"
       /\ created # {}
       /\ entry'[Strftime(LatestBackup)] = "dir"
       /\ Strftime(LatestBackup) \in archived'
       /\ \A n \in blast.removed : entry'[n] = "absent"
       /\ DatedBefore(KeepFrom(retention_days, LatestBackup)) = {}

\* C32 as stated: execute() of the workflow on a manager whose process is
\* alive raises ServerAlreadyRunningError and leaves handle, cached state and
\* timestamp unchanged, after the backup step has run, whose effects stay.
C32_AlreadyRunningKeepsBackup ==
  [][\A t \in Threads, exists \in BOOLEAN, spawn_ok \in BOOLEAN :
       (WorkflowStart(t, exists, spawn_ok) /\ Running(process))
       => AlreadyRunningAfterBackup(t)
    ]_allvars

\* C32 as amended: when the backup step has returned and the process is
\* alive at the liveness check of start, execute() of the workflow raises
\* ServerAlreadyRunningError if the start script exists and
\* ResourceNotFoundError if it does not; either way handle, cached state and
\* timestamp are unchanged and the effects of the backup step stay.
C32_StartRefusedKeepsBackup ==
  [][\A t \in Threads, spawn_ok \in BOOLEAN :
       /\ (WorkflowStart(t, TRUE, spawn_ok) /\ Running(process))
          => AlreadyRunningAfterBackup(t)
       /\ (WorkflowStart(t, FALSE, spawn_ok) /\ Running(process))
          => ( /\ last' = Returned("start", "ResourceNotFoundError")
               /\ wlast' = WReturned("ResourceNotFoundError",
                                     [wcalls[t] EXCEPT !.starts = 1])
               /\ UNCHANGED ManagerState
               /\ UNCHANGED <<fs, created, written>> )
    ]_allvars

\* C32 witness: an execute() of the workflow has just raised
\* ServerAlreadyRunningError after its backup step made the backup of today
\* and removed an older directory.
C32_Witness ==
  /\ wlast = WReturned("ServerAlreadyRunningError", WCalls(TRUE, 1, 1))
  /\ last = Returned("start", "ServerAlreadyRunningError")
  /\ blast.op = "ensure" /\ blast.res = "True" /\ blast.removed # {}
  /\ today \in created /\ Strftime(today) \in archived
  /\ Running(process)
====
